---- MODULE Spec2Model ----
(***************************************************************************)
(* A model of scripts/theme.py: the colour arithmetic and the contrast     *)
(* search (ensure_contrast), the template resolver (resolve_value), the    *)
(* theme builder (get_variant_colors, generate_syntax, generate_variant)   *)
(* and the five validators run by cmd_validate.                            *)
(*                                                                         *)
(* Strings are TLA+ strings, taken apart with Len, SubSeq and \o, so      *)
(* that prefixes, slices and patterns are computed and not assumed.        *)
(* JSON values are tagged records; a mapping is a function from its key    *)
(* strings, a list is a sequence.  Floating-point values are kept as   *)
(* exact fractions; the one place where the rounding of a double is observable,  *)
(* the truncation int(x * 255) of a whole-valued x * 255, is a choice      *)
(* between the two outcomes a build can produce.                           *)
(***************************************************************************)
EXTENDS Integers, Sequences, FiniteSets, TLC

VARIABLES
    \* ensure_contrast
    fg, bg, min_ratio, direction, h, s, l, go_lighter, step, iter, candidate,
    result, pc, call, out1,
    \* resolve_value
    segments, colors, shape, value, resolved, rpc,
    \* generate_theme
    palette, base, tables, themes, artifact, consistency, gpc,
    \* cmd_validate
    data, outputs, vpc, status

contrastVars == <<fg, bg, min_ratio, direction, h, s, l, go_lighter, step, iter,
                  candidate, result, pc, call, out1>>

resolveVars == <<segments, colors, shape, value, resolved, rpc>>

themeVars == <<palette, base, tables, themes, artifact, consistency, gpc>>

validateVars == <<data, outputs, vpc, status>>

vars == <<contrastVars, resolveVars, themeVars, validateVars>>

(***************************************************************************)
(* Generic helpers                                                         *)
(***************************************************************************)
Max(a, b) == IF a >= b THEN a ELSE b

Min(a, b) == IF a <= b THEN a ELSE b

\* floor(a * v / m) and the remainder, for 0 <= v and 0 < m, computed bit by
\* bit of a so that no intermediate value leaves the 32-bit range.
RECURSIVE MulDiv(_, _, _)
MulDiv(a, v, m) ==
    IF a = 0 THEN [quot |-> 0, rem |-> 0]
    ELSE LET half == MulDiv(a \div 2, v, m)
             r2   == 2 * half.rem + (a % 2) * v
         IN  [quot |-> 2 * half.quot + (r2 \div m), rem |-> r2 % m]

\* str[i] as a one-character string, "" past the end
CharAt(str, i) == IF i >= 1 /\ i <= Len(str) THEN SubSeq(str, i, i) ELSE ""

\* str[i-1:j], cut at the end of the string as a Python slice is
Slice(str, i, j) == SubSeq(str, i, Min(j, Len(str)))

\* str.startswith(prefix)
StartsWith(str, prefix) ==
    Len(str) >= Len(prefix) /\ SubSeq(str, 1, Len(prefix)) = prefix

(***************************************************************************)
(* Colour utilities                                                        *)
(***************************************************************************)
HexChars == <<"0", "1", "2", "3", "4", "5", "6", "7", "8", "9",
              "a", "b", "c", "d", "e", "f">>

UpperHexChars == <<"0", "1", "2", "3", "4", "5", "6", "7", "8", "9",
                   "A", "B", "C", "D", "E", "F">>

IsHexChar(ch) == \E i \in 1..16 : HexChars[i] = ch \/ UpperHexChars[i] = ch

\* int(ch, 16) of one character
HexVal(ch) == (CHOOSE i \in 1..16 : HexChars[i] = ch \/ UpperHexChars[i] = ch) - 1

\* int(str, 16) of a string of hex digits
RECURSIVE HexInt(_)
HexInt(str) ==
    IF Len(str) = 0 THEN 0
    ELSE 16 * HexInt(SubSeq(str, 1, Len(str) - 1)) + HexVal(CharAt(str, Len(str)))

\* str.lstrip("#")
RECURSIVE LstripHash(_)
LstripHash(str) ==
    IF StartsWith(str, "#") THEN LstripHash(SubSeq(str, 2, Len(str))) ELSE str

\* hex_to_rgb: the first six characters after the leading '#', two per channel
hex_to_rgb(hex_color) ==
    LET hx == Slice(LstripHash(hex_color), 1, 6)
    IN  [i \in 1..3 |-> HexInt(Slice(hx, 2 * i - 1, 2 * i))]

\* rgb_to_hex: "#" and two lower-case hex digits per channel
rgb_to_hex(rgb) ==
    "#" \o HexChars[(rgb[1] \div 16) + 1] \o HexChars[(rgb[1] % 16) + 1]
        \o HexChars[(rgb[2] \div 16) + 1] \o HexChars[(rgb[2] % 16) + 1]
        \o HexChars[(rgb[3] \div 16) + 1] \o HexChars[(rgb[3] % 16) + 1]

\* hex_to_hsl.  The three results are exact fractions:
\*   hue        = 60 * hn / hd degrees   (hn / hd is the hue in sixths of a turn)
\*   saturation = 100 * sn / sd percent
\*   lightness  = ln / 51 percent        ((mx + mn) / 510 * 100), so that
\*                                      0..100 percent is ln in 0..5100
hex_to_hsl(hex_color) ==
    LET rgb == hex_to_rgb(hex_color)
        r   == rgb[1]
        g   == rgb[2]
        b   == rgb[3]
        mx  == Max(r, Max(g, b))
        mn  == Min(r, Min(g, b))
        d   == mx - mn
    IN  IF mx = mn
        THEN [hn |-> 0, hd |-> 1, sn |-> 0, sd |-> 1, ln |-> (mx + mn) * 10]
        ELSE [hn |-> IF mx = r THEN (g - b) + (IF g < b THEN 6 * d ELSE 0)
                     ELSE IF mx = g THEN (b - r) + 2 * d
                     ELSE (r - g) + 4 * d,
              hd |-> d,
              sn |-> d,
              sd |-> IF mx + mn > 255 THEN 510 - mx - mn ELSE mx + mn,
              ln |-> (mx + mn) * 10]

\* The real value of one channel before int(c * 255), as the fraction
\* num / den: the body of hsl_to_hex with hue2rgb(h + k/3), k in {1, 0, -1}.
HslChannel(hn, hd, sn, sd, ln, k) ==
    LET lden == 5100
        den  == lden * sd * hd
    IN  IF sn = 0 THEN [num |-> ln * sd * hd, den |-> den]
        ELSE LET q  == IF 2 * ln < lden THEN ln * (sd + sn)
                       ELSE ln * sd + lden * sn - ln * sn
                 p  == 2 * ln * sd - q
                 t6 == (hn + 2 * k * hd) % (6 * hd)
             IN  IF t6 < hd THEN [num |-> p * hd + (q - p) * t6, den |-> den]
                 ELSE IF t6 < 3 * hd THEN [num |-> q * hd, den |-> den]
                 ELSE IF t6 < 4 * hd
                      THEN [num |-> p * hd + (q - p) * (4 * hd - t6), den |-> den]
                 ELSE [num |-> p * hd, den |-> den]

\* int(c * 255) of a double c whose real value is num / den.  A value of
\* c * 255 that is not whole truncates to its floor.  A whole value n >= 1
\* truncates to n or, when the double came out just below it, to n - 1;
\* 0 and the achromatic white (l = 1.0 exactly) are computed without error.
TruncChannel(c, exact) ==
    LET md == MulDiv(255, c.num, c.den)
    IN  IF md.rem = 0 /\ md.quot > 0 /\ ~exact
        THEN {md.quot - 1, md.quot}
        ELSE {md.quot}

\* hsl_to_hex: the set of strings the call can return
hsl_to_hex(hn, hd, sn, sd, ln) ==
    LET exact == sn = 0 /\ ln = 5100
        R == TruncChannel(HslChannel(hn, hd, sn, sd, ln, 1), exact)
        G == TruncChannel(HslChannel(hn, hd, sn, sd, ln, 0), exact)
        B == TruncChannel(HslChannel(hn, hd, sn, sd, ln, -1), exact)
    IN  {rgb_to_hex(<<r, g, b>>) : r \in R, g \in G, b \in B}

\* channel(c / 255) of luminance, times 100000, for c = 0..255
ChannelTable ==
    <<
     0, 30, 61, 91, 121, 152, 182, 212, 243, 273, 304, 335,
     368, 402, 439, 478, 518, 561, 605, 651, 700, 750, 802, 857,
     913, 972, 1033, 1096, 1161, 1229, 1298, 1370, 1444, 1521, 1600, 1681,
     1764, 1850, 1938, 2029, 2122, 2217, 2315, 2416, 2519, 2624, 2732, 2843,
     2956, 3071, 3190, 3310, 3434, 3560, 3689, 3820, 3955, 4092, 4231, 4374,
     4519, 4667, 4817, 4971, 5127, 5286, 5448, 5613, 5781, 5951, 6125, 6301,
     6480, 6663, 6848, 7036, 7227, 7421, 7619, 7819, 8022, 8228, 8438, 8650,
     8866, 9084, 9306, 9531, 9759, 9990, 10224, 10462, 10702, 10946, 11193, 11444,
     11697, 11954, 12214, 12477, 12744, 13014, 13287, 13563, 13843, 14126, 14413, 14703,
     14996, 15293, 15593, 15896, 16203, 16513, 16827, 17144, 17465, 17789, 18116, 18447,
     18782, 19120, 19462, 19807, 20156, 20508, 20864, 21223, 21586, 21953, 22323, 22697,
     23074, 23455, 23840, 24228, 24620, 25016, 25415, 25818, 26225, 26636, 27050, 27468,
     27889, 28315, 28744, 29177, 29614, 30054, 30499, 30947, 31399, 31855, 32314, 32778,
     33245, 33716, 34191, 34670, 35153, 35640, 36131, 36625, 37124, 37626, 38133, 38643,
     39157, 39676, 40198, 40724, 41254, 41789, 42327, 42869, 43415, 43966, 44520, 45079,
     45641, 46208, 46778, 47353, 47932, 48515, 49102, 49693, 50289, 50888, 51492, 52100,
     52712, 53328, 53948, 54572, 55201, 55834, 56471, 57112, 57758, 58408, 59062, 59720,
     60383, 61050, 61721, 62396, 63076, 63760, 64448, 65141, 65837, 66539, 67244, 67954,
     68669, 69387, 70110, 70838, 71569, 72306, 73046, 73791, 74540, 75294, 76052, 76815,
     77582, 78354, 79130, 79910, 80695, 81485, 82279, 83077, 83880, 84687, 85499, 86316,
     87137, 87962, 88792, 89627, 90466, 91310, 92158, 93011, 93869, 94731, 95597, 96469,
     97345, 98225, 99110, 100000 >>

\* luminance, times 10^8
luminance(rgb) ==
    (2126 * ChannelTable[rgb[1] + 1] + 7152 * ChannelTable[rgb[2] + 1]
        + 722 * ChannelTable[rgb[3] + 1]) \div 10

LumHalf == 50000000

LumOffset == 5000000

\* floor(a * contrast_ratio(c1, c2))
ScaledRatio(a, c1, c2) ==
    LET l1 == luminance(hex_to_rgb(c1))
        l2 == luminance(hex_to_rgb(c2))
    IN  MulDiv(a, Max(l1, l2) + LumOffset, Min(l1, l2) + LumOffset).quot

\* contrast_ratio, in hundredths (rounded down)
contrast_ratio(c1, c2) == ScaledRatio(100, c1, c2)

(***************************************************************************)
(* ensure_contrast(fg, bg, min_ratio, direction), one step of its loop per *)
(* action.  min_ratio is in hundredths.  After the call returns, it is     *)
(* called once more on its own result (call = 2).                          *)
(***************************************************************************)
FgColors == <<
    "#8ee67d", 
    "#550715", 
    "#2a2a3e", 
    "#808080">>

BgColors == <<
    "#ff026e", 
    "#1a1a2e", 
    "#f0f0f0", 
    "#894951">>

NumFg == 3

NumBg == 3

MinRatios == {300, 450, 700, 2200}

Directions == {"auto", "lighter", "darker"}

MaxSteps == 100

NoColor == ""

ContrastInit ==
    /\ fg \in {FgColors[i] : i \in 1..NumFg}
    /\ bg \in {BgColors[i] : i \in 1..NumBg}
    /\ min_ratio \in MinRatios
    /\ direction \in Directions
    /\ h = [n |-> 0, d |-> 1]
    /\ s = [n |-> 0, d |-> 1]
    /\ l = 0
    /\ go_lighter = FALSE
    /\ step = 0
    /\ iter = 0
    /\ candidate = NoColor
    /\ result = NoColor
    /\ pc = "start"
    /\ call = 1
    /\ out1 = NoColor

\* direction == "lighter" or (direction == "auto" and bg_lum < 0.5)
GoLighter(dir, bg_lum) == dir = "lighter" \/ (dir = "auto" /\ bg_lum < LumHalf)

\* A search that moves two points of lightness per iteration
StepLightnessTwoPoints(ln, st) == Max(0, Min(5100, ln + 2 * st * 51))

\* max(0, min(100, l + step)), in 51sts of a percent
StepLightness(ln, st) == Max(0, Min(5100, ln + st * 51))

\* lines 128-129: the foreground already meets the ratio
ReturnUnchanged ==
    /\ pc = "start"
    /\ contrast_ratio(fg, bg) >= min_ratio
    /\ result' = fg
    /\ pc' = "done"
    /\ UNCHANGED <<fg, bg, min_ratio, direction, h, s, l, go_lighter, step, iter,
                   candidate, call, out1>>

\* lines 131-136: decompose the foreground and pick the direction
BeginSearch ==
    /\ pc = "start"
    /\ contrast_ratio(fg, bg) < min_ratio
    /\ LET hsl == hex_to_hsl(fg)
           lighter == GoLighter(direction, luminance(hex_to_rgb(bg)))
       IN  /\ h' = [n |-> hsl.hn, d |-> hsl.hd]
           /\ s' = [n |-> hsl.sn, d |-> hsl.sd]
           /\ l' = hsl.ln
           /\ go_lighter' = lighter
           /\ step' = IF lighter THEN 1 ELSE -1
    /\ iter' = 0
    /\ pc' = "loop"
    /\ UNCHANGED <<fg, bg, min_ratio, direction, candidate, result, call, out1>>

\* lines 138-142: one iteration of the loop
SearchStep ==
    /\ pc = "loop"
    /\ iter < MaxSteps
    /\ l' = StepLightness(l, step)
    /\ \E c \in hsl_to_hex(h.n, h.d, s.n, s.d, l') :
          /\ candidate' = c
          /\ IF contrast_ratio(c, bg) >= min_ratio
             THEN result' = c /\ pc' = "done"
             ELSE result' = result /\ pc' = "loop"
    /\ iter' = iter + 1
    /\ UNCHANGED <<fg, bg, min_ratio, direction, h, s, go_lighter, step, call, out1>>

\* A search that gives the foreground back when the loop ran out
ReturnForeground ==
    /\ pc = "loop"
    /\ iter = MaxSteps
    /\ result' = fg
    /\ pc' = "done"
    /\ UNCHANGED <<fg, bg, min_ratio, direction, h, s, l, go_lighter, step, iter,
                   candidate, call, out1>>

\* line 144: the loop ran out
ReturnBestEffort ==
    /\ pc = "loop"
    /\ iter = MaxSteps
    /\ result' \in hsl_to_hex(h.n, h.d, s.n, s.d, l)
    /\ pc' = "done"
    /\ UNCHANGED <<fg, bg, min_ratio, direction, h, s, l, go_lighter, step, iter,
                   candidate, call, out1>>

\* ensure_contrast(out, bg, min_ratio, direction) on the first call's result
CallAgain ==
    /\ pc = "done"
    /\ call = 1
    /\ out1' = result
    /\ fg' = result
    /\ call' = 2
    /\ pc' = "start"
    /\ h' = [n |-> 0, d |-> 1]
    /\ s' = [n |-> 0, d |-> 1]
    /\ l' = 0
    /\ go_lighter' = FALSE
    /\ step' = 0
    /\ iter' = 0
    /\ candidate' = NoColor
    /\ result' = NoColor
    /\ UNCHANGED <<bg, min_ratio, direction>>


(***************************************************************************)
(* JSON values                                                             *)
(***************************************************************************)
\* A value is a record of one field, named after its type: two values of
\* different types differ in their field names.
Str(x) == [str |-> x]

Dict(f) == [dict |-> f]

List(xs) == [list |-> xs]

Num(n) == [num |-> n]

Null == [null |-> TRUE]

IsStr(val) == DOMAIN val = {"str"}

IsDict(val) == DOMAIN val = {"dict"}

IsList(val) == DOMAIN val = {"list"}

IsNum(val) == DOMAIN val = {"num"}

EmptyMap == [k \in {} |-> Null]

\* {**a, **b}: the keys of both, b's value on a key of both
Merge(a, b) ==
    [k \in (DOMAIN a) \cup (DOMAIN b) |-> IF k \in DOMAIN b THEN b[k] ELSE a[k]]

\* d.get(k, default)
Get(d, k, default) == IF k \in DOMAIN d THEN d[k] ELSE default

\* sub in str
RECURSIVE ContainsFrom(_, _, _)
ContainsFrom(str, sub, i) ==
    IF i + Len(sub) - 1 > Len(str) THEN FALSE
    ELSE IF SubSeq(str, i, i + Len(sub) - 1) = sub THEN TRUE
    ELSE ContainsFrom(str, sub, i + 1)

Contains(str, sub) == ContainsFrom(str, sub, 1)

(***************************************************************************)
(* Template resolution                                                     *)
(***************************************************************************)
\* [^}]+ from position i: the first position at or after i that holds "}" or
\* lies past the end
RECURSIVE RunEnd(_, _)
RunEnd(str, i) ==
    IF i > Len(str) \/ CharAt(str, i) = "}" THEN i ELSE RunEnd(str, i + 1)

\* The last position of a match of \{\{([^}]+)\}\} that starts at i, 0 when
\* there is none.  The run [^}]+ is maximal: a shorter run is followed by a
\* character that is not "}", so backtracking finds no other match.
MatchEnd(str, i) ==
    IF SubSeq(str, i, Min(i + 1, Len(str))) # "{{" THEN 0
    ELSE LET e == RunEnd(str, i + 2)
         IN  IF e > i + 2 /\ e + 1 <= Len(str) /\ SubSeq(str, e, e + 1) = "}}"
             THEN e + 1
             ELSE 0

\* A substitution that puts nothing where the key is not in the table
RECURSIVE SubFromBlank(_, _, _)
SubFromBlank(template, table, i) ==
    IF i > Len(template) THEN ""
    ELSE LET e == MatchEnd(template, i)
         IN  IF e = 0
             THEN CharAt(template, i) \o SubFromBlank(template, table, i + 1)
             ELSE Get(table, SubSeq(template, i + 2, e - 2), "")
                      \o SubFromBlank(template, table, e + 1)

\* re.sub from position i on: leftmost matches, none overlapping, each replaced
\* by colors.get(key, whole match)
RECURSIVE SubFrom(_, _, _)
SubFrom(template, table, i) ==
    IF i > Len(template) THEN ""
    ELSE LET e == MatchEnd(template, i)
         IN  IF e = 0
             THEN CharAt(template, i) \o SubFrom(template, table, i + 1)
             ELSE Get(table, SubSeq(template, i + 2, e - 2), SubSeq(template, i, e))
                      \o SubFrom(template, table, e + 1)

resolve_template(template, table) == SubFrom(template, table, 1)

\* A resolver that also resolves the templates in the keys of a mapping
RECURSIVE resolve_value_keys(_, _)
resolve_value_keys(val, table) ==
    CASE IsStr(val) /\ Contains(val.str, "{{") ->
            Str(resolve_template(val.str, table))
      [] IsDict(val) ->
            Dict([kk \in {resolve_template(k, table) : k \in DOMAIN val.dict} |->
                    resolve_value_keys(
                        val.dict[CHOOSE k \in DOMAIN val.dict :
                                    resolve_template(k, table) = kk], table)])
      [] IsList(val) ->
            List([i \in 1..Len(val.list) |-> resolve_value_keys(val.list[i], table)])
      [] OTHER -> val

RECURSIVE resolve_value(_, _)
resolve_value(val, table) ==
    CASE IsStr(val) /\ Contains(val.str, "{{") ->
            Str(resolve_template(val.str, table))
      [] IsDict(val) ->
            Dict([k \in DOMAIN val.dict |-> resolve_value(val.dict[k], table)])
      [] IsList(val) ->
            List([i \in 1..Len(val.list) |-> resolve_value(val.list[i], table)])
      [] OTHER -> val

(***************************************************************************)
(* resolve_value applied to a template put together from segments: literal *)
(* text, placeholders {{key}} and stray braces; alone, or inside a mapping *)
(* or a list.                                                              *)
(***************************************************************************)
SegmentKinds ==
    { [kind |-> "lit", text |-> "-"],
      [kind |-> "ref", text |-> "background.deep"],
      [kind |-> "ref", text |-> "a"],
      [kind |-> "ref", text |-> "missing.key"],
      [kind |-> "stray", text |-> "{"],
      [kind |-> "stray", text |-> "}"] }

MaxSegments == 3

SegmentLists == UNION {[1..n -> SegmentKinds] : n \in 0..MaxSegments}

ColorTables ==
    { [k \in K |-> IF k = "a" THEN "#222222" ELSE "#111111"] :
        K \in SUBSET {"background.deep", "a"} }

Shapes == {"str", "dict", "list", "scalar"}

RenderSegment(seg) ==
    IF seg.kind = "ref" THEN "{{" \o seg.text \o "}}" ELSE seg.text

RECURSIVE Render(_)
Render(segs) ==
    IF segs = <<>> THEN "" ELSE RenderSegment(Head(segs)) \o Render(Tail(segs))

\* The value handed to resolve_value: the string itself, a mapping or a list
\* that holds it next to other values, or a scalar
Wrap(sh, str) ==
    CASE sh = "str" -> Str(str)
      [] sh = "dict" -> Dict("{{a}}" :> Str(str) @@ "n" :> Num(700)
                              @@ "d" :> Dict("k" :> Str(str)))
      [] sh = "list" -> List(<<Str(str), Null, List(<<Str("x"), Str(str)>>)>>)
      [] OTHER -> Num(Len(str))

ResolveInit ==
    /\ segments \in SegmentLists
    /\ colors \in ColorTables
    /\ shape \in Shapes
    /\ value = Wrap(shape, Render(segments))
    /\ resolved = Null
    /\ rpc = "ready"

Resolve ==
    /\ rpc = "ready"
    /\ resolved' = resolve_value(value, colors)
    /\ rpc' = "done"
    /\ UNCHANGED <<segments, colors, shape, value>>


(***************************************************************************)
(* Colour table and theme generation                                       *)
(***************************************************************************)
VARIANT_KEYS == <<"classic", "soft", "high_contrast">>

\* {f"{prefix}{k}": v for k, v in m.items()}
Prefixed(prefix, m) ==
    [kk \in {prefix \o k : k \in DOMAIN m} |->
        m[SubSeq(kk, Len(prefix) + 1, Len(kk))]]

\* {k: v for k, v in m.items() if not k.startswith("$")}
WithoutDollar(m) == [k \in {x \in DOMAIN m : ~StartsWith(x, "$")} |-> m[k]]

\* A table in which the base colour wins over the override on a shared key
get_variant_colors_base_wins(pal, variant) ==
    LET flat == Merge(Prefixed("background.", pal.base.background),
                Merge(Prefixed("foreground.", pal.base.foreground),
                Merge(Prefixed("border.", pal.base.border),
                Merge(Prefixed("syntax.", WithoutDollar(pal.syntax)),
                      Prefixed("terminal.", pal.terminal)))))
    IN  IF variant # "classic"
        THEN Merge(WithoutDollar(Get(Get(pal, "variants", EmptyMap),
                                     variant, EmptyMap)), flat)
        ELSE flat

get_variant_colors(pal, variant) ==
    LET flat == Merge(Prefixed("background.", pal.base.background),
                Merge(Prefixed("foreground.", pal.base.foreground),
                Merge(Prefixed("border.", pal.base.border),
                Merge(Prefixed("syntax.", WithoutDollar(pal.syntax)),
                      Prefixed("terminal.", pal.terminal)))))
    IN  IF variant # "classic"
        THEN Merge(flat, WithoutDollar(Get(Get(pal, "variants", EmptyMap),
                                           variant, EmptyMap)))
        ELSE flat

\* [{"cursor": c, "background": c, "selection": f"{c}40"} for c in players]
generate_players(pal) ==
    List([i \in 1..Len(pal.players) |->
            Dict("cursor" :> Str(pal.players[i])
                 @@ "background" :> Str(pal.players[i])
                 @@ "selection" :> Str(pal.players[i] \o "40"))])

\* A token-group table is the sequence of its <<group, tokens>> entries in
\* document order; the entry of a "$" key holds a description, not tokens.
\* {token: key for key, tokens in groups.items() if not key.startswith("$")
\*  for token in tokens}: the last group that lists a token wins.
RECURSIVE TokenGroups(_)
TokenGroups(groups) ==
    IF groups = <<>> THEN EmptyMap
    ELSE LET last  == groups[Len(groups)]
             front == TokenGroups(SubSeq(groups, 1, Len(groups) - 1))
         IN  IF StartsWith(last[1], "$") THEN front
             ELSE Merge(front, [tok \in {last[2][i] : i \in 1..Len(last[2])} |-> last[1]])

\* dict.get(key) with None for a missing key
GetOrNull(m, k) == IF k \in DOMAIN m THEN Str(m[k]) ELSE Null

\* lines 226-230
get_color(token_colors, table, tok) ==
    IF GetOrNull(token_colors, tok) = Str("foreground")
    THEN GetOrNull(table, "foreground.primary")
    ELSE GetOrNull(table, "syntax." \o Get(token_colors, tok, "type"))

\* lines 235-236: the font_style and font_weight of a token
font_style(token_styles, tok) ==
    IF GetOrNull(token_styles, tok) # Str("normal")
    THEN GetOrNull(token_styles, tok)
    ELSE Str("normal")

font_weight(token_styles, tok) ==
    IF GetOrNull(token_styles, tok) = Str("bold") THEN Num(700) ELSE Null

generate_syntax(bs, table) ==
    LET token_colors == TokenGroups(bs.syntax_colors)
        token_styles == TokenGroups(bs.syntax_styles)
        special_map  == WithoutDollar(Get(bs, "syntax_special", EmptyMap))
        syntax == [tok \in (DOMAIN token_colors) \cup (DOMAIN token_styles) |->
                     Dict("color" :> get_color(token_colors, table, tok)
                          @@ "font_style" :> font_style(token_styles, tok)
                          @@ "font_weight" :> font_weight(token_styles, tok))]
    IN  Merge(syntax,
              [k \in DOMAIN special_map |->
                 Dict("color" :> Str(resolve_template(special_map[k], table)))])

generate_variant(bs, pal, variant_key) ==
    LET table    == get_variant_colors(pal, variant_key)
        config   == bs.variants[variant_key]
        ui       == resolve_value(Dict(bs.ui), table).dict
        terminal == [kk \in {"terminal." \o k : k \in DOMAIN bs.terminal} |->
                       resolve_value(bs.terminal[SubSeq(kk, 10, Len(kk))], table)]
        fixed    ==
            "background" :> Str(table["background.deep"])
            @@ "foreground" :> Str(table["foreground.primary"])
            @@ "accent" :> Str(table["syntax.type"])
            @@ "border" :> Str(table["border.default"])
            @@ "border.focused" :> Str(table["border.focused"])
            @@ "elevated_surface.background" :> Str(table["background.surface"])
            @@ "surface.background" :> Str(table["background.surface"])
            @@ "element.background" :> Str(table["background.surface"])
            @@ "element.hover" :> Str(table["background.elevated"])
            @@ "element.active" :> Str(table["background.active"])
            @@ "element.selected" :> Str(table["background.active"])
            @@ "text" :> Str(table["foreground.primary"])
            @@ "editor.background" :> Str(table["background.surface"])
            @@ "editor.active_line.background" :> Str(table["background.elevated"])
            @@ "editor.line_number" :>
                   Str(table["foreground.primary"] \o config.line_number_alpha)
        style    == Merge(fixed, Merge(ui, Merge(terminal,
                        "players" :> generate_players(pal)
                        @@ "syntax" :> Dict(generate_syntax(bs, table)))))
    IN  Dict("name" :> Str(config.name) @@ "appearance" :> Str("dark")
             @@ "style" :> Dict(style))

\* generate_theme, given the variants already generated
generate_theme(bs, variants) ==
    Dict("$schema" :> Str(bs["$schema"]) @@ "name" :> Str(bs.name)
         @@ "author" :> Str(bs.author) @@ "themes" :> List(variants))

(***************************************************************************)
(* Validation                                                              *)
(***************************************************************************)
Digits == <<"0", "1", "2", "3", "4", "5", "6", "7", "8", "9">>

\* str(n) of a natural number
RECURSIVE IntToStr(_)
IntToStr(n) ==
    IF n < 10 THEN Digits[n + 1] ELSE IntToStr(n \div 10) \o Digits[(n % 10) + 1]

\* The lists of a list, one after the other: a nested comprehension
RECURSIVE Flatten(_)
Flatten(lists) ==
    IF lists = <<>> THEN <<>>
    ELSE Flatten(SubSeq(lists, 1, Len(lists) - 1)) \o lists[Len(lists)]

\* The elements of a set as a list, in an order the model does not fix
RECURSIVE SetToSeq(_)
SetToSeq(S) ==
    IF S = {} THEN <<>>
    ELSE LET x == CHOOSE y \in S : TRUE IN <<x>> \o SetToSeq(S \ {x})

\* repr of a set of strings
RECURSIVE JoinQuoted(_)
JoinQuoted(xs) ==
    IF xs = <<>> THEN ""
    ELSE "'" \o Head(xs) \o "'"
         \o (IF Len(xs) > 1 THEN ", " ELSE "") \o JoinQuoted(Tail(xs))

SetRepr(S) == "{" \o JoinQuoted(SetToSeq(S)) \o "}"

\* Result.success, Result.failure
success(msg) == [ok |-> TRUE, message |-> "OK: " \o msg]

failure(msg) == [ok |-> FALSE, message |-> "FAIL: " \o msg]

\* What a validator call does: it returns its results, or raises
Returned(rs) == [raised |-> FALSE, results |-> rs]

Raised == [raised |-> TRUE, results |-> <<>>]

\* One after the other: the first call that raises ends the whole
RECURSIVE Collect(_)
Collect(calls) ==
    IF calls = <<>> THEN Returned(<<>>)
    ELSE LET before == Collect(SubSeq(calls, 1, Len(calls) - 1))
             last   == calls[Len(calls)]
         IN  IF before.raised \/ last.raised THEN Raised
             ELSE Returned(before.results \o last.results)

\* data.get("themes", [])
Themes(doc) == IF "themes" \in DOMAIN doc.dict THEN doc.dict["themes"].list ELSE <<>>

\* bool(value)
Truthy(val) ==
    CASE IsStr(val) -> val.str # ""
      [] IsNum(val) -> val.num # 0
      [] IsDict(val) -> DOMAIN val.dict # {}
      [] IsList(val) -> Len(val.list) > 0
      [] OTHER -> FALSE

\* len(value), and whether it is defined
HasLen(val) == IsStr(val) \/ IsDict(val) \/ IsList(val)

PyLen(val) ==
    CASE IsStr(val) -> Len(val.str)
      [] IsList(val) -> Len(val.list)
      [] IsDict(val) -> Cardinality(DOMAIN val.dict)

required_root == <<"$schema", "themes">>

required_theme == <<"name", "appearance", "style">>

validate_structure(doc) ==
    LET ths == Themes(doc)
        rootErrors ==
            Flatten([i \in 1..Len(required_root) |->
                        IF required_root[i] \in DOMAIN doc.dict THEN <<>>
                        ELSE <<"Missing " \o required_root[i]>>])
        themeErrors ==
            Flatten([i \in 1..Len(ths) |->
                Flatten([j \in 1..Len(required_theme) |->
                            IF required_theme[j] \in DOMAIN ths[i].dict THEN <<>>
                            ELSE <<"Theme " \o IntToStr(i - 1) \o ": missing "
                                     \o required_theme[j]>>])])
        errors == rootErrors \o themeErrors
    IN  Returned(IF errors = <<>> THEN <<success("Valid structure")>>
                 ELSE [i \in 1..Len(errors) |-> failure(errors[i])])

\* find_colors: the <<path, string>> pairs it lists.  Only a mapping is
\* walked into; there is no case for a list.
RECURSIVE find_colors(_, _)
find_colors(obj, path) ==
    CASE IsDict(obj) ->
            UNION {find_colors(obj.dict[k], path \o "." \o k) : k \in DOMAIN obj.dict}
      [] IsStr(obj) /\ StartsWith(obj.str, "#") -> {<<path, obj.str>>}
      [] OTHER -> {}

\* ^#[0-9a-fA-F]{6}([0-9a-fA-F]{2})?$
MatchesColorPattern(c) ==
    /\ Len(c) \in {7, 9}
    /\ CharAt(c, 1) = "#"
    /\ \A i \in 2..Len(c) : IsHexChar(CharAt(c, i))

MaxReported == 10

validate_colors(doc) ==
    LET invalid  == SetToSeq({pc1 \in find_colors(doc, "") : ~MatchesColorPattern(pc1[2])})
        reported == SubSeq(invalid, 1, Min(MaxReported, Len(invalid)))
    IN  Returned(IF reported = <<>> THEN <<success("All colors valid hex format")>>
                 ELSE [i \in 1..Len(reported) |->
                         failure(reported[i][1] \o ": invalid '" \o reported[i][2] \o "'")])

\* Whether hex_to_rgb returns for this string: each of the three two-character
\* slices of the first six characters is a non-empty run of hex digits
CanParse(hex_color) ==
    LET hx == Slice(LstripHash(hex_color), 1, 6)
    IN  Len(hx) >= 5 /\ \A i \in 1..Len(hx) : IsHexChar(CharAt(hx, i))

\* f"{ratio:.1f}"
FormatRatio(c1, c2) ==
    LET tenths == (ScaledRatio(20, c1, c2) + 1) \div 2
    IN  IntToStr(tenths \div 10) \o "." \o IntToStr(tenths % 10)

TextThreshold == 450

CommentThreshold == 300

\* One contrast check of validate_contrast (lines 334-340 and 341-347)
ContrastCheck(t, bgv, other, label, threshold, shown) ==
    IF ~(Truthy(bgv) /\ Truthy(other)) THEN Returned(<<>>)
    ELSE IF ~IsStr(bgv) \/ ~IsStr(other) THEN Raised
    ELSE IF ~(CanParse(bgv.str) /\ CanParse(other.str)) THEN Raised
    ELSE IF "name" \notin DOMAIN t.dict THEN Raised
    ELSE Returned(<<IF contrast_ratio(bgv.str, other.str) >= threshold
                    THEN success(t.dict["name"].str \o " " \o label \o " contrast "
                                 \o FormatRatio(bgv.str, other.str) \o ":1")
                    ELSE failure(t.dict["name"].str \o ": " \o label \o " contrast "
                                 \o FormatRatio(bgv.str, other.str) \o ":1 < " \o shown \o ":1")>>)

\* A lookup that ignores the editor's own colour
PlainColor(style, editor_key, plain_key) == Get(style, plain_key, Null)

\* lines 329-330: style.get(editor_key, style.get(plain_key))
EffectiveColor(style, editor_key, plain_key) ==
    Get(style, editor_key, Get(style, plain_key, Null))

\* The body of validate_contrast's loop for one theme
ThemeContrast(t) ==
    IF "style" \notin DOMAIN t.dict THEN Raised
    ELSE LET style   == t.dict["style"].dict
             bgv     == EffectiveColor(style, "editor.background", "background")
             fgv     == EffectiveColor(style, "editor.foreground", "foreground")
             syntax  == Get(style, "syntax", Dict(EmptyMap))
         IN  IF ~IsDict(syntax) THEN Raised
             ELSE LET comment == Get(syntax.dict, "comment", Dict(EmptyMap))
                      comment_color == IF IsDict(comment)
                                       THEN Get(comment.dict, "color", Null) ELSE Null
                      text == ContrastCheck(t, bgv, fgv, "text", TextThreshold, "4.5")
                      cmt  == ContrastCheck(t, bgv, comment_color, "comment",
                                            CommentThreshold, "3.0")
                  IN  IF text.raised \/ cmt.raised THEN Raised
                      ELSE Returned(text.results \o cmt.results)

validate_contrast(doc) ==
    Collect([i \in 1..Len(Themes(doc)) |-> ThemeContrast(Themes(doc)[i])])

MinPlayers == 8

\* The element of validate_players for one theme
ThemePlayers(t) ==
    IF "style" \notin DOMAIN t.dict THEN Raised
    ELSE LET p == Get(t.dict["style"].dict, "players", List(<<>>))
         IN  IF ~HasLen(p) \/ "name" \notin DOMAIN t.dict THEN Raised
             ELSE Returned(<<IF PyLen(p) >= MinPlayers
                             THEN success(t.dict["name"].str \o " has " \o IntToStr(PyLen(p))
                                          \o " player colors")
                             ELSE failure(t.dict["name"].str \o ": only " \o IntToStr(PyLen(p))
                                          \o " players")>>)

validate_players(doc) ==
    Collect([i \in 1..Len(Themes(doc)) |-> ThemePlayers(Themes(doc)[i])])

\* The messages of validate_consistency for one theme after the first
ThemeConsistency(t, base_keys) ==
    IF "style" \notin DOMAIN t.dict THEN Raised
    ELSE LET keys    == DOMAIN t.dict["style"].dict
             missing == base_keys \ keys
             extra   == keys \ base_keys
         IN  IF missing = {} /\ extra = {} THEN Returned(<<>>)
             ELSE IF "name" \notin DOMAIN t.dict THEN Raised
             ELSE Returned(
                    (IF missing # {}
                     THEN <<failure(t.dict["name"].str \o ": missing " \o SetRepr(missing))>>
                     ELSE <<>>)
                    \o (IF extra # {}
                        THEN <<failure(t.dict["name"].str \o ": extra " \o SetRepr(extra))>>
                        ELSE <<>>))

validate_consistency(doc) ==
    LET ths == Themes(doc)
    IN  IF Len(ths) < 2 THEN Returned(<<success("Single theme")>>)
        ELSE IF "style" \notin DOMAIN ths[1].dict THEN Raised
        ELSE LET base_keys == DOMAIN ths[1].dict["style"].dict
                 rest == Collect([i \in 1..(Len(ths) - 1) |->
                                    ThemeConsistency(ths[i + 1], base_keys)])
             IN  IF rest.raised THEN Raised
                 ELSE IF rest.results # <<>> THEN rest
                 ELSE Returned(<<success("All " \o IntToStr(Len(ths))
                                         \o " variants consistent")>>)

(***************************************************************************)
(* generate_theme on a palette and a base template drawn from a bounded    *)
(* family, one variant per step, then validate_consistency on the result   *)
(***************************************************************************)
BaseBackground ==
    "deep" :> "#1a1a2e" @@ "surface" :> "#262335" @@ "elevated" :> "#2a2139"
    @@ "active" :> "#34294f"

BaseForeground == "primary" :> "#f0f0f0"

BaseBorder == "default" :> "#495495" @@ "focused" :> "#ff7edb"

BaseSyntax == "type" :> "#fe4450" @@ "keyword" :> "#fede5d" @@ "comment" :> "#848bbd"

BaseTerminal == "red" :> "#fe4450"

\* A metadata entry, as palette.json carries in its groups
MetaEntry == "$comment" :> "note"

MetaGroups == {"none", "background", "foreground", "border", "syntax", "terminal"}

WithMeta(group, name, metaGroup) ==
    IF metaGroup = name THEN Merge(group, MetaEntry) ELSE group

OverrideChoices ==
    << EmptyMap,
       "$comment" :> "softer" @@ "background.deep" :> "#241b2f"
           @@ "syntax.keyword" :> "#ffe98a",
       "extra.key" :> "#123456" @@ "foreground.primary" :> "#ffffff",
       "$syntax.type" :> "#000000" @@ "terminal.red" :> "#ff0000" >>

NumOverrides == 3

Palettes ==
    { [base |-> [background |-> WithMeta(BaseBackground, "background", m),
                 foreground |-> WithMeta(BaseForeground, "foreground", m),
                 border     |-> WithMeta(BaseBorder, "border", m)],
       syntax   |-> WithMeta(BaseSyntax, "syntax", m),
       terminal |-> WithMeta(BaseTerminal, "terminal", m),
       players  |-> <<"#ff7edb", "#36f9f6">>,
       variants |-> [soft |-> OverrideChoices[so], high_contrast |-> OverrideChoices[hc]]] :
      m \in MetaGroups, so \in 1..NumOverrides, hc \in 1..NumOverrides }

UiChoices ==
    { "panel.background" :> Str("{{background.surface}}")
          @@ "text.muted" :> Str("{{foreground.muted}}"),
      "background" :> Str("{{background.elevated}}")
          @@ "scrollbar" :> Dict("thumb" :> Str("{{syntax.keyword}}80")),
      "hint.{{syntax.keyword}}" :> Str("{{syntax.keyword}}") }

SyntaxColorChoices ==
    { << <<"$comment", <<>>>>, <<"keyword", <<"keyword", "operator">>>>,
         <<"foreground", <<"variable">>>>, <<"comment", <<"comment">>>> >>,
      << <<"keyword", <<"keyword">>>>, <<"type", <<"keyword", "type">>>> >> }

SyntaxStyleChoices ==
    { << <<"italic", <<"comment">>>>, <<"bold", <<"keyword">>>> >>,
      << <<"normal", <<"variable">>>>, <<"bold", <<"title">>>> >>,
      << >> }

SyntaxSpecialChoices ==
    { EmptyMap,
      "link_uri" :> "{{terminal.red}}" @@ "$comment" :> "special tokens" }

BaseTemplates ==
    { [name |-> "Synthwave84", author |-> "a", ui |-> ui,
       terminal |-> ("ansi.red" :> Str("{{terminal.red}}")),
       syntax_colors |-> sc, syntax_styles |-> ss, syntax_special |-> sp,
       variants |-> [classic |-> [name |-> "Classic", line_number_alpha |-> "80"],
                     soft |-> [name |-> "Soft", line_number_alpha |-> "60"],
                     high_contrast |-> [name |-> "High Contrast",
                                        line_number_alpha |-> "a0"]]]
          @@ ("$schema" :> "https://zed.dev/schema/themes/v0.2.0.json") :
      ui \in UiChoices, sc \in SyntaxColorChoices, ss \in SyntaxStyleChoices,
      sp \in SyntaxSpecialChoices }

NoResults == Returned(<<>>)

ThemeInit ==
    /\ palette \in Palettes
    /\ base \in BaseTemplates
    /\ tables = <<>>
    /\ themes = <<>>
    /\ artifact = Null
    /\ consistency = NoResults
    /\ gpc = "variants"

\* line 286: the next element of [generate_variant(base, palette, k) for k in VARIANT_KEYS]
GenerateVariant ==
    /\ gpc = "variants"
    /\ Len(themes) < Len(VARIANT_KEYS)
    /\ LET k == VARIANT_KEYS[Len(themes) + 1]
       IN  /\ tables' = Append(tables, get_variant_colors(palette, k))
           /\ themes' = Append(themes, generate_variant(base, palette, k))
    /\ UNCHANGED <<palette, base, artifact, consistency, gpc>>

\* lines 282-287: generate_theme returns
AssembleTheme ==
    /\ gpc = "variants"
    /\ Len(themes) = Len(VARIANT_KEYS)
    /\ artifact' = generate_theme(base, themes)
    /\ gpc' = "generated"
    /\ UNCHANGED <<palette, base, tables, themes, consistency>>

\* validate_consistency on the generated artifact
CheckGenerated ==
    /\ gpc = "generated"
    /\ consistency' = validate_consistency(artifact)
    /\ gpc' = "checked"
    /\ UNCHANGED <<palette, base, tables, themes, artifact>>

(***************************************************************************)
(* cmd_validate on an artifact drawn from a bounded family of well-formed  *)
(* and malformed artifacts, one validator per step                         *)
(***************************************************************************)
Player(c) ==
    Dict("cursor" :> Str(c) @@ "background" :> Str(c) @@ "selection" :> Str(c \o "40"))

Players(n, c) == List([i \in 1..n |-> Player(c)])

GoodStyle ==
    "background" :> Str("#1a1a2e") @@ "foreground" :> Str("#f0f0f0")
    @@ "players" :> Players(8, "#ff7edb")
    @@ "syntax" :> Dict("comment" :> Dict("color" :> Str("#848bbd")))

\* g with the entries of f put over it
Over(f, g) == Merge(g, f)

StyleChoices ==
    << GoodStyle,
       Over("foreground" :> Str("#2a2a3e"), GoodStyle),
       Over("editor.background" :> Str("#e8e8e8"), GoodStyle),
       Over("foreground" :> Str("#2a2a3e") @@ "editor.foreground" :> Str("#f0f0f0"),
            GoodStyle),
       Over("players" :> Players(7, "#12345"), GoodStyle),
       Over("border" :> Str("#zzzzzz"), GoodStyle),
       Over("background" :> Str("#1a1a"), GoodStyle),
       Over("syntax" :> Dict("comment" :> Dict("color" :> Str("#2a2a3e"))), GoodStyle) >>

NumStyles == Len(StyleChoices)

VariantNames == <<"Classic", "Soft", "High Contrast", "Extra">>

\* A theme option: a style choice with every required key, or the good
\* style with one required key left out
ThemeOptions ==
    {[style |-> i, drop |-> "none"] : i \in 1..NumStyles}
    \cup {[style |-> 1, drop |-> d] : d \in {"name", "appearance", "style"}}

\* The theme at position i for option o
ThemeAt(i, o) ==
    LET full == "name" :> Str(VariantNames[i]) @@ "appearance" :> Str("dark")
                @@ "style" :> Dict(StyleChoices[o.style])
    IN  Dict([k \in (DOMAIN full) \ {o.drop} |-> full[k]])

MaxThemes == 2

RootChoices == {"ok", "no_schema", "bad_color", "no_themes"}

ArtifactOf(root, opts) ==
    LET full == "$schema" :> Str("https://zed.dev/schema/themes/v0.2.0.json")
                @@ "name" :> Str("Synthwave84") @@ "author" :> Str("a")
                @@ "themes" :> List([i \in 1..Len(opts) |-> ThemeAt(i, opts[i])])
    IN  CASE root = "no_schema" -> Dict([k \in (DOMAIN full) \ {"$schema"} |-> full[k]])
          [] root = "no_themes" -> Dict([k \in (DOMAIN full) \ {"themes"} |-> full[k]])
          [] root = "bad_color" -> Dict(full @@ "accent" :> Str("#bad"))
          [] OTHER -> Dict(full)

Artifacts ==
    { ArtifactOf(root, opts) :
        root \in RootChoices,
        opts \in UNION {[1..n -> ThemeOptions] : n \in 1..MaxThemes} }

ValidateInit ==
    /\ data \in Artifacts
    /\ outputs = <<>>
    /\ vpc = "structure"
    /\ status = "running"

\* line 395, one validator: its results are added, or its exception ends
\* the command
RunValidator(name, out, next) ==
    /\ vpc = name
    /\ IF out.raised
       THEN /\ vpc' = "aborted"
            /\ status' = "traceback"
            /\ outputs' = outputs
       ELSE /\ vpc' = next
            /\ status' = status
            /\ outputs' = Append(outputs, out.results)
    /\ UNCHANGED data

RunStructure == RunValidator("structure", validate_structure(data), "colors")

RunColors == RunValidator("colors", validate_colors(data), "contrast")

RunContrast == RunValidator("contrast", validate_contrast(data), "players")

RunPlayers == RunValidator("players", validate_players(data), "consistency")

RunConsistency == RunValidator("consistency", validate_consistency(data), "report")

\* results = [r for v in validators for r in v(data)]
Results == Flatten(outputs)

\* lines 397-402
Report ==
    /\ vpc = "report"
    /\ status' = IF \A i \in 1..Len(Results) : Results[i].ok THEN "exit 0" ELSE "exit 1"
    /\ vpc' = "done"
    /\ UNCHANGED <<data, outputs>>

(***************************************************************************)
(* Specifications, one per part of the program; the other parts stay idle  *)
(***************************************************************************)
ContrastIdle ==
    /\ fg = NoColor /\ bg = NoColor /\ min_ratio = 0 /\ direction = "auto"
    /\ h = [n |-> 0, d |-> 1] /\ s = [n |-> 0, d |-> 1] /\ l = 0
    /\ go_lighter = FALSE /\ step = 0 /\ iter = 0 /\ candidate = NoColor
    /\ result = NoColor /\ pc = "idle" /\ call = 0 /\ out1 = NoColor

ResolveIdle ==
    /\ segments = <<>> /\ colors = EmptyMap /\ shape = "scalar"
    /\ value = Null /\ resolved = Null /\ rpc = "idle"

ThemeIdle ==
    /\ palette = EmptyMap /\ base = EmptyMap /\ tables = <<>> /\ themes = <<>>
    /\ artifact = Null /\ consistency = NoResults /\ gpc = "idle"

ValidateIdle ==
    /\ data = Null /\ outputs = <<>> /\ vpc = "idle" /\ status = "idle"

\* ensure_contrast
Init == ContrastInit /\ ResolveIdle /\ ThemeIdle /\ ValidateIdle

Next ==
    \/ ReturnUnchanged /\ UNCHANGED <<resolveVars, themeVars, validateVars>>
    \/ BeginSearch /\ UNCHANGED <<resolveVars, themeVars, validateVars>>
    \/ SearchStep /\ UNCHANGED <<resolveVars, themeVars, validateVars>>
    \/ ReturnBestEffort /\ UNCHANGED <<resolveVars, themeVars, validateVars>>
    \/ CallAgain /\ UNCHANGED <<resolveVars, themeVars, validateVars>>

Spec == Init /\ [][Next]_vars

\* resolve_value
InitResolve == ContrastIdle /\ ResolveInit /\ ThemeIdle /\ ValidateIdle

NextResolve == Resolve /\ UNCHANGED <<contrastVars, themeVars, validateVars>>

SpecResolve == InitResolve /\ [][NextResolve]_vars

\* generate_theme
InitTheme == ContrastIdle /\ ResolveIdle /\ ThemeInit /\ ValidateIdle

NextTheme ==
    \/ GenerateVariant /\ UNCHANGED <<contrastVars, resolveVars, validateVars>>
    \/ AssembleTheme /\ UNCHANGED <<contrastVars, resolveVars, validateVars>>
    \/ CheckGenerated /\ UNCHANGED <<contrastVars, resolveVars, validateVars>>

SpecTheme == InitTheme /\ [][NextTheme]_vars

\* cmd_validate
InitValidate == ContrastIdle /\ ResolveIdle /\ ThemeIdle /\ ValidateInit

NextValidate ==
    \/ RunStructure /\ UNCHANGED <<contrastVars, resolveVars, themeVars>>
    \/ RunColors /\ UNCHANGED <<contrastVars, resolveVars, themeVars>>
    \/ RunContrast /\ UNCHANGED <<contrastVars, resolveVars, themeVars>>
    \/ RunPlayers /\ UNCHANGED <<contrastVars, resolveVars, themeVars>>
    \/ RunConsistency /\ UNCHANGED <<contrastVars, resolveVars, themeVars>>
    \/ Report /\ UNCHANGED <<contrastVars, resolveVars, themeVars>>

SpecValidate == InitValidate /\ [][NextValidate]_vars

(***************************************************************************)
(* Properties of ensure_contrast (specification Spec)                      *)
(***************************************************************************)
\* The lightness the search ends on when it finds nothing: 100 when
\* lightening, 0 when darkening
ExtremeLightness == IF go_lighter THEN 5100 ELSE 0

\* C1: ensure_contrast takes at most 100 lightness steps (the step count never
\* passes 100 and the search goes on only below it), and what it returns either has a contrast ratio against bg of at least the
\* minimum, or is the colour built at the clamped lightness extreme (0 when
\* darkening, 100 when lightening) from the search's hue and saturation after
\* all 100 steps.
C1_BoundedSearchOutcome ==
    /\ iter <= 100
    /\ pc = "start" => iter = 0
    /\ pc = "done" =>
          \/ contrast_ratio(result, bg) >= min_ratio
          \/ /\ iter = 100
             /\ l = ExtremeLightness
             /\ result \in hsl_to_hex(h.n, h.d, s.n, s.d, ExtremeLightness)

\* A call that used all 100 steps and returned a colour below the ratio
C1_Witness ==
    /\ pc = "done"
    /\ call = 1
    /\ iter = 100
    /\ contrast_ratio(result, bg) < min_ratio

\* C2: ensure_contrast is idempotent: called on its own result with the same
\* background, ratio and direction it returns that result.
C2_Idempotent == (call = 2 /\ pc = "done") => result = out1

\* What holds in a state of the search loop: hue and saturation are those of
\* the foreground, the lightness is within [0, 100], the direction follows
\* the rule and the candidate is built from this hue, saturation, lightness
SearchState ==
    pc = "loop" =>
       /\ h = [n |-> hex_to_hsl(fg).hn, d |-> hex_to_hsl(fg).hd]
       /\ s = [n |-> hex_to_hsl(fg).sn, d |-> hex_to_hsl(fg).sd]
       /\ l \in 0..5100
       /\ go_lighter <=> \/ direction = "lighter"
                         \/ /\ direction = "auto"
                            /\ luminance(hex_to_rgb(bg)) < 50000000
       /\ iter > 0 => candidate \in hsl_to_hex(hex_to_hsl(fg).hn, hex_to_hsl(fg).hd,
                                               hex_to_hsl(fg).sn, hex_to_hsl(fg).sd, l)

\* C8: throughout the search the hue and saturation the candidate is built
\* from are the foreground's, the lightness stays within [0, 100] and moves
\* only in the chosen direction, by at most one point a step; the direction
\* is lighter when it is "lighter", or "auto" over a background of relative
\* luminance below 0.5, and darker otherwise.
C8_SearchInvariants ==
    /\ []SearchState
    /\ [][ (pc = "loop" /\ pc' # "start") =>
              /\ h' = h
              /\ s' = s
              /\ go_lighter' = go_lighter
              /\ go_lighter => (l' >= l /\ l' - l <= 51)
              /\ ~go_lighter => (l' <= l /\ l - l' <= 51) ]_vars

\* A darkening search, chosen by "auto" over a light background, that has
\* reached lightness 0 and goes on
C8_Witness ==
    /\ pc = "loop"
    /\ direction = "auto"
    /\ ~go_lighter
    /\ l = 0
    /\ iter \in 2..99
    /\ hex_to_hsl(fg).sn # 0

(***************************************************************************)
(* Properties of resolve_value (specification SpecResolve)                 *)
(***************************************************************************)
\* What the segments stand for once resolved: a placeholder whose key is in
\* the table is the key's colour, everything else is its own text
RECURSIVE Expected(_, _)
Expected(segs, table) ==
    IF segs = <<>> THEN ""
    ELSE (IF Head(segs).kind = "ref" /\ Head(segs).text \in DOMAIN table
          THEN table[Head(segs).text]
          ELSE RenderSegment(Head(segs)))
         \o Expected(Tail(segs), table)

\* The value expected of resolve_value: the same mapping, list or scalar,
\* with each of its template strings resolved and nothing else changed
ExpectedValue ==
    IF shape = "scalar" THEN value ELSE Wrap(shape, Expected(segments, colors))

\* No "{" of the template stands outside a placeholder
NoStrayOpenBrace ==
    \A i \in 1..Len(segments) :
        ~(segments[i].kind = "stray" /\ segments[i].text = "{")

\* C3 (as stated): in every string, every {{key}} with key in the table is
\* replaced by the key's colour and every other {{key}} is left as it is;
\* in a mapping or a list the same holds of every nested string, keys and
\* order are kept, and any other scalar is returned unchanged.
C3_EveryPlaceholderResolved == rpc = "done" => resolved = ExpectedValue

\* C3 (amended): the same, for the templates in which no "{" stands outside
\* a placeholder.
C3_PlaceholdersResolved ==
    (rpc = "done" /\ NoStrayOpenBrace) => resolved = ExpectedValue

\* A resolved template that mixes a replaced placeholder with one whose key
\* is not in the table, inside a mapping
C3_Witness ==
    /\ rpc = "done"
    /\ shape = "dict"
    /\ NoStrayOpenBrace
    /\ \E i, j \in 1..Len(segments) :
          /\ segments[i] = [kind |-> "ref", text |-> "background.deep"]
          /\ segments[j] = [kind |-> "ref", text |-> "missing.key"]
    /\ \E i \in 1..Len(segments) : segments[i].text = "}"
    /\ "background.deep" \in DOMAIN colors
    /\ resolved # value

(***************************************************************************)
(* Properties of theme generation (specification SpecTheme)                *)
(***************************************************************************)
\* The style key set of a generated variant
StyleKeys(theme) == DOMAIN theme.dict["style"].dict

\* C4: all variants of a generated artifact (classic, soft, high_contrast)
\* have the style key set of the first one, whatever the overrides of the
\* palette, and validate_consistency on the artifact reports no missing and
\* no extra key.
C4_SameStyleKeys ==
    /\ \A i \in 1..Len(themes) : StyleKeys(themes[i]) = StyleKeys(themes[1])
    /\ gpc \in {"generated", "checked"} =>
          /\ Len(artifact.dict["themes"].list) = 3
          /\ \A i \in 1..3 :
                StyleKeys(artifact.dict["themes"].list[i])
                    = StyleKeys(artifact.dict["themes"].list[1])
    /\ gpc = "checked" =>
          consistency = Returned(<<success("All 3 variants consistent")>>)

\* A checked artifact whose template has a placeholder inside a key and whose
\* soft and high_contrast overrides differ, one adding a key of its own and
\* one changing the colour that placeholder names
C4_Witness ==
    /\ gpc = "checked"
    /\ "hint.{{syntax.keyword}}" \in DOMAIN base.ui
    /\ "syntax.keyword" \in DOMAIN palette.variants.soft
    /\ "extra.key" \in DOMAIN palette.variants.high_contrast
    /\ tables[1] # tables[2]
    /\ tables[2] # tables[3]

\* The groups of the palette that are flattened, each with its prefix
Groups(pal) ==
    { <<"background.", pal.base.background>>, <<"foreground.", pal.base.foreground>>,
      <<"border.", pal.base.border>>, <<"syntax.", pal.syntax>>,
      <<"terminal.", pal.terminal>> }

\* The <<dotted key, colour>> pairs of the groups, the "$" keys of the groups
\* named in filtered left out
FlatPairs(pal, filtered) ==
    UNION { { <<g[1] \o k, g[2][k]>> :
                k \in {x \in DOMAIN g[2] : ~(g[1] \in filtered /\ StartsWith(x, "$"))} } :
            g \in Groups(pal) }

\* The pairs of a variant's overrides, "$" keys left out; none for classic
OverridePairs(pal, variant) ==
    IF variant = "classic" THEN {}
    ELSE { <<k, pal.variants[variant][k]>> :
             k \in {x \in DOMAIN pal.variants[variant] : ~StartsWith(x, "$")} }

\* The overrides, and the pairs of the groups on the keys no override has
ExpectedPairs(pal, variant, filtered) ==
    OverridePairs(pal, variant)
    \cup { p \in FlatPairs(pal, filtered) :
             \A q \in OverridePairs(pal, variant) : q[1] # p[1] }

TablePairs(table) == { <<k, table[k]>> : k \in DOMAIN table }

\* C9 (as stated): the table of a variant is the dotted-key flattening of
\* the background, foreground, border, syntax and terminal groups with every
\* "$" key left out, overlaid (except for classic) with the variant's
\* overrides, "$" keys left out, the override winning on a shared key.
C9_DollarKeysExcluded ==
    \A i \in 1..Len(tables) :
        TablePairs(tables[i])
            = ExpectedPairs(palette, VARIANT_KEYS[i],
                            {"background.", "foreground.", "border.", "syntax.",
                             "terminal."})

\* C9 (amended): the same, with the "$" keys left out of the syntax group
\* and of the overrides only; a "$" key of the background, foreground,
\* border or terminal group is in the table under its dotted name.
C9_SyntaxDollarKeysExcluded ==
    \A i \in 1..Len(tables) :
        TablePairs(tables[i]) = ExpectedPairs(palette, VARIANT_KEYS[i], {"syntax."})

\* All three tables built, from a palette with a "$" key in its syntax group
\* and soft overrides that hold a "$" key and a key of the base
C9_Witness ==
    /\ Len(tables) = 3
    /\ "$comment" \in DOMAIN palette.syntax
    /\ "$comment" \in DOMAIN palette.variants.soft
    /\ tables[1]["background.deep"] = "#1a1a2e"
    /\ tables[2]["background.deep"] = "#241b2f"
    /\ "$comment" \notin DOMAIN tables[2]

\* The style group a token is declared in, "normal" when in none
DeclaredStyle(tok) == Get(TokenGroups(base.syntax_styles), tok, "normal")

\* The colour of the role a token is declared in, of the default role "type"
\* when in none; the role "foreground" names the primary foreground
RoleColor(table, tok) ==
    LET role == Get(TokenGroups(base.syntax_colors), tok, "type")
    IN  IF role = "foreground" THEN GetOrNull(table, "foreground.primary")
        ELSE GetOrNull(table, "syntax." \o role)

\* C10: every token of the colour-group or style-group tables (that has no
\* special style) has the colour of its declared role, or of the default
\* role; font_style its declared style group, "normal" when it has none; and
\* font_weight 700 exactly when its style is "bold", none otherwise.
C10_TokenStyles ==
    \A i \in 1..Len(themes) :
        LET syntax == themes[i].dict["style"].dict["syntax"].dict
            tokens == ((DOMAIN TokenGroups(base.syntax_colors))
                       \cup (DOMAIN TokenGroups(base.syntax_styles)))
                      \ (DOMAIN base.syntax_special)
        IN  \A tok \in tokens :
               /\ tok \in DOMAIN syntax
               /\ syntax[tok].dict["color"] = RoleColor(tables[i], tok)
               /\ syntax[tok].dict["font_style"] = Str(DeclaredStyle(tok))
               /\ syntax[tok].dict["font_weight"]
                     = (IF DeclaredStyle(tok) = "bold" THEN Num(700) ELSE Null)

(***************************************************************************)
(* Properties of validation (specification SpecValidate)                   *)
(***************************************************************************)
\* The <<position, key>> pairs of the required keys that a variant lacks
MissingKeys ==
    { ik \in (1..Len(Themes(data))) \X {"name", "appearance", "style"} :
        ik[2] \notin DOMAIN Themes(data)[ik[1]].dict }

\* C5: a validation run never aborts on a malformed artifact: when a variant
\* lacks a required key (name, appearance or style) each of the five checks
\* still runs to completion, the results hold a failing result naming each
\* missing key, and the overall outcome is failure.
C5_MalformedReported ==
    MissingKeys # {} =>
       /\ vpc # "aborted"
       /\ vpc = "done" =>
             /\ Len(outputs) = 5
             /\ status = "exit 1"
             /\ \A ik \in MissingKeys :
                   \E j \in 1..Len(Results) :
                       /\ ~Results[j].ok
                       /\ Contains(Results[j].message, "missing " \o ik[2])

\* Every <<path, string>> of a string beginning with "#" that a walk through
\* mappings and sequences reaches
RECURSIVE HashStrings(_, _)
HashStrings(obj, path) ==
    CASE IsDict(obj) ->
            UNION {HashStrings(obj.dict[k], path \o "." \o k) : k \in DOMAIN obj.dict}
      [] IsList(obj) ->
            UNION {HashStrings(obj.list[i], path \o "[" \o IntToStr(i - 1) \o "]") :
                     i \in 1..Len(obj.list)}
      [] IsStr(obj) /\ StartsWith(obj.str, "#") -> {<<path, obj.str>>}
      [] OTHER -> {}

Malformed == {ps \in HashStrings(data, "") : ~MatchesColorPattern(ps[2])}

\* C6: validate_colors checks every string beginning with "#" reachable
\* through mappings and sequences: when one of them is malformed it returns
\* failing results, one per violation and at most 10, and it returns the
\* single success result only when none is malformed.
C6_EveryColorChecked ==
    Len(outputs) >= 2 =>
       /\ Malformed = {} => outputs[2] = <<success("All colors valid hex format")>>
       /\ Malformed # {} =>
             /\ Len(outputs[2]) = Min(10, Cardinality(Malformed))
             /\ \A j \in 1..Len(outputs[2]) :
                   /\ ~outputs[2][j].ok
                   /\ \E ps \in Malformed : Contains(outputs[2][j].message, ps[2])

\* The text-contrast results validate_contrast gave for the variant of this
\* name
TextResults(name) ==
    { outputs[3][j] : j \in { i \in 1..Len(outputs[3]) :
                               /\ Contains(outputs[3][i].message, name)
                               /\ Contains(outputs[3][i].message, " text contrast ") } }

\* The variant has one text-contrast result: passing exactly when the ratio
\* of the two colours is at least 4.5, and citing the ratio when failing
TextJudgedOn(theme, bgc, fgc) ==
    LET rs == TextResults(theme["name"].str)
    IN  /\ Cardinality(rs) = 1
        /\ \A r \in rs :
              /\ r.ok <=> contrast_ratio(bgc, fgc) >= 450
              /\ ~r.ok => Contains(r.message, " " \o FormatRatio(bgc, fgc) \o ":1 ")

\* The colours validate_contrast reads from a style
ContrastKeys == {"background", "foreground", "editor.background", "editor.foreground"}

\* Every variant has a name and a style that defines background and
\* foreground, and the colours the contrast check reads are well-formed
ContrastInputsOk ==
    \A i \in 1..Len(Themes(data)) :
        LET theme == Themes(data)[i].dict
        IN  /\ {"name", "style"} \subseteq DOMAIN theme
            /\ {"background", "foreground"} \subseteq DOMAIN theme["style"].dict
            /\ \A k \in ContrastKeys \cap DOMAIN theme["style"].dict :
                  /\ IsStr(theme["style"].dict[k])
                  /\ MatchesColorPattern(theme["style"].dict[k].str)
            /\ \A ps \in HashStrings(Get(theme["style"].dict, "syntax", Null), "") :
                  MatchesColorPattern(ps[2])

\* C7 (as stated): for every variant whose style defines background and
\* foreground, validate_contrast gives a passing text-contrast result exactly
\* when the ratio of that background and that foreground is at least 4.5,
\* and otherwise a failing one citing the ratio, whatever else the style
\* holds.
C7_BackgroundForeground ==
    (ContrastInputsOk /\ Len(outputs) >= 3) =>
       \A i \in 1..Len(Themes(data)) :
           LET theme == Themes(data)[i].dict
           IN  TextJudgedOn(theme, theme["style"].dict["background"].str,
                            theme["style"].dict["foreground"].str)

\* C7 (amended): in an artifact whose variants all have a name and a style
\* with well-formed colours, validate_contrast returns, and it judges each
\* variant on the style's editor.background when the style has one and on
\* its background otherwise, against its editor.foreground when it has one
\* and its foreground otherwise.
C7_EditorColorsPreferred ==
    ContrastInputsOk =>
       /\ vpc # "aborted"
       /\ Len(outputs) >= 3 =>
             \A i \in 1..Len(Themes(data)) :
                 LET theme == Themes(data)[i].dict
                     style == theme["style"].dict
                     bgc == IF "editor.background" \in DOMAIN style
                            THEN style["editor.background"].str
                            ELSE style["background"].str
                     fgc == IF "editor.foreground" \in DOMAIN style
                            THEN style["editor.foreground"].str
                            ELSE style["foreground"].str
                 IN  TextJudgedOn(theme, bgc, fgc)

\* A finished run on two variants: one fails on its editor.background though
\* its background would pass, the other passes on its editor.foreground
\* though its foreground would fail
C7_Witness ==
    /\ vpc = "done"
    /\ ContrastInputsOk
    /\ Len(Themes(data)) = 2
    /\ "editor.background" \in DOMAIN Themes(data)[1].dict["style"].dict
    /\ "editor.foreground" \in DOMAIN Themes(data)[2].dict["style"].dict
    /\ \E r \in TextResults("Classic") : ~r.ok
    /\ \E r \in TextResults("Soft") : r.ok

====
